---- MODULE Spec2Model ----
(***************************************************************************)
(* Model of .github/scripts/project_automation.py: the command-line tool   *)
(* that puts an issue into GitHub "build" projects and sets or clears the  *)
(* sprint (iteration) field.  The remote side (issue labels, organization  *)
(* projects, project items, project fields) is the state; every gh api     *)
(* call of a run is one step.                                              *)
(***************************************************************************)
EXTENDS Integers, Sequences, FiniteSets, TLC

\* ------------------------------------------------------------- bounds
MaxRuns == 2
MaxFailures == 1

Runs == 1..MaxRuns

\* ------------------------------------------------- program constants
\* projectsV2(first: 100), items(first: 100), fields(first: 20)
ProjectPageSize == 100
ItemPageSize == 100
FieldPageSize == 20

\* ------------------------------------------------------------- values
\* Label names and project titles are strings, modelled as character
\* sequences so that prefix and equality tests are computed.
B16 == <<"B", "1", "6">>
B17 == <<"B", "1", "7">>
bug == <<"b", "u", "g">>
b16 == <<"b", "1", "6">>
BuildPrefix == <<"B">>

NoLabel == <<>>
IssueNode == "I_issue"
OtherNode == "I_other"
NoIteration == "null"
NoProject == "none"

Min(a, b) == IF a < b THEN a ELSE b

\* The first n entries of a listing: what a "first: n" connection returns.
Page(s, n) == SubSeq(s, 1, Min(Len(s), n))

Repeat(x, n) == [k \in 1..n |-> x]

\* ------------------------------------------------------ pure functions
startswith(s, prefix) ==
    /\ Len(prefix) <= Len(s)
    /\ SubSeq(s, 1, Len(prefix)) = prefix

get_labels_ignoring_prefix(labels, prefix) == labels

\* jq '.labels[].name | select(startswith(prefix))', split on newlines
get_labels_by_prefix(labels, prefix) ==
    SelectSeq(labels, LAMBDA l : startswith(l, prefix))

\* jq '.data.organization.projectsV2.nodes[] | select(.title == title)':
\* the matching nodes of the first page, one per output line.
get_project_by_title(projects, title) ==
    SelectSeq(Page(projects, ProjectPageSize), LAMBDA p : p.title = title)

\* The ids of the first k items whose content is the issue, in listing order.
\* An item's id is its position in the project's listing.
SelectItemIds(its, issue_id, k) ==
    SelectSeq([i \in 1..k |-> i], LAMBDA i : its[i].content = issue_id)

\* jq '.data.node.items.nodes[] | select(.content.id == issue_id) | .id'
\* over items(first: 100); the empty output is None.
is_issue_in_project(its, issue_id) ==
    SelectItemIds(its, issue_id, Min(Len(its), ItemPageSize))

\* All items of the issue in the project, whatever the page.
ItemsOf(its, issue_id) == SelectItemIds(its, issue_id, Len(its))

\* jq '.data.node.fields.nodes[] | select(.name == "Iteration" or
\* .name == "Sprint")' over fields(first: 20); only iteration fields carry a
\* name in the response (the fragment "... on ProjectV2IterationField").
get_iteration_field(flds) ==
    SelectSeq(Page(flds, FieldPageSize),
              LAMBDA f : f.type = "iteration" /\ f.name \in {"Iteration", "Sprint"})

last_iteration_id(iterations) == iterations[Len(iterations)]

\* iterations[0]['id']
current_iteration_id(iterations) == iterations[1]


\* ------------------------------------------------------- remote side
ProjectRec(id, title) == [id |-> id, title |-> title]
FieldRec(name, type, iterations) ==
    [name |-> name, type |-> type, iterations |-> iterations]
ItemRec(content, iteration) == [content |-> content, iteration |-> iteration]

ProjectIds == {"PA", "PB"}

\* Organization project listings, in the order the remote returns them.
OrgBoth == <<ProjectRec("PA", B16), ProjectRec("PB", B17)>>
OrgOnlyA == <<ProjectRec("PF", b16), ProjectRec("PA", B16)>>
OrgDup == <<ProjectRec("PA", B16), ProjectRec("PB", B16)>>
OrgFull == Repeat(ProjectRec("PF", b16), ProjectPageSize - 1) \o OrgBoth

\* Field listings of a project.
StatusField == FieldRec("Status", "single_select", <<>>)
FieldsNone == <<FieldRec("Sprint", "single_select", <<>>)>>
FieldsEmpty == <<FieldRec("Iteration", "iteration", <<>>)>>
FieldsGood == <<StatusField, FieldRec("Sprint", "iteration", <<"IT_1", "IT_2">>)>>
FieldsTwo == <<FieldRec("Iteration", "iteration", <<"IT_1">>),
               FieldRec("Sprint", "iteration", <<"IT_2">>)>>
FieldsFar == Repeat(StatusField, FieldPageSize) \o
             <<FieldRec("Sprint", "iteration", <<"IT_1", "IT_2">>)>>

\* Item listing of a project: fill items of other issues, then (member) the
\* issue's own item, which carries an iteration of an earlier sprint.
InitialItems(fill, member) ==
    Repeat(ItemRec(OtherNode, NoIteration), fill) \o
    (IF member THEN <<ItemRec(IssueNode, "IT_2")>> ELSE <<>>)

World(labels, org, fillA, memA, fldA, memB, fldB, dedup) ==
    [labels |-> labels, org |-> org,
     items |-> [p \in ProjectIds |->
                  IF p = "PA" THEN InitialItems(fillA, memA)
                  ELSE InitialItems(0, memB)],
     fields |-> [p \in ProjectIds |-> IF p = "PA" THEN fldA ELSE fldB],
     dedup |-> dedup]

\* Worlds around the item page of one project.
MembershipWorlds ==
    {World(<<B16>>, OrgOnlyA, fill, mem, FieldsGood, FALSE, FieldsGood, dedup) :
        fill \in {0, ItemPageSize - 1, ItemPageSize},
        mem \in BOOLEAN, dedup \in BOOLEAN}

\* Worlds of an issue without build label.
UnlabelledWorlds ==
    {World(labels, OrgBoth, 0, mem, FieldsGood, mem, FieldsGood, FALSE) :
        labels \in {<<>>, <<bug>>}, mem \in BOOLEAN}

\* Worlds of an issue with several build labels.
BatchWorlds ==
    {World(labels, org, 0, mem, fldA, mem, fldB, FALSE) :
        labels \in {<<B16, B17>>, <<B17, bug, B16>>},
        org \in {OrgBoth, OrgOnlyA},
        mem \in BOOLEAN,
        fldA \in {FieldsNone, FieldsEmpty, FieldsGood, FieldsTwo, FieldsFar},
        fldB \in {FieldsNone, FieldsGood}}

\* Worlds around the project page of the organization.
OrgWorlds ==
    {World(labels, org, 0, mem, FieldsGood, mem, FieldsGood, FALSE) :
        labels \in {<<B16, B17>>, <<B17, bug, B16>>},
        org \in {OrgDup, OrgFull},
        mem \in BOOLEAN}

Worlds == MembershipWorlds \cup UnlabelledWorlds \cup BatchWorlds \cup OrgWorlds

\* mutation addProjectV2ItemById: the item is appended to the project's items
\* and its id returned.  Whether the remote answers a content that is already
\* an item with that item, or creates another one, is not fixed by the
\* script: dedup says which.
addProjectV2ItemById(its, content_id, dedup) ==
    LET old == ItemsOf(its, content_id)
    IN  IF dedup /\ old # <<>>
        THEN [items |-> its, id |-> old[1]]
        ELSE [items |-> Append(its, ItemRec(content_id, NoIteration)),
              id |-> Len(its) + 1]

\* mutations updateProjectV2ItemFieldValue / clearProjectV2ItemFieldValue
updateProjectV2ItemFieldValue(its, item, value) ==
    [its EXCEPT ![item].iteration = value]

\* An itemId argument the remote accepts: one id, of an item of the project.
ValidItemId(its, item_id) ==
    Len(item_id) = 1 /\ item_id[1] \in DOMAIN its

\* ------------------------------------------------------------- state
VARIABLES
    issueLabels,   \* label names of the issue
    orgProjects,   \* the organization's projects
    fields,        \* project id -> field listing
    items,         \* project id -> item listing
    remoteDedup,   \* the remote's answer to adding an existing content
    failures,      \* gh api calls that have failed so far
    run            \* run -> the invocation's position and locals

remote == <<issueLabels, orgProjects, fields, remoteDedup>>
vars == <<issueLabels, orgProjects, fields, items, remoteDedup, failures, run>>

Actions == {"add-to-sprint", "remove-from-sprint", "add-to-build-project"}

CallPcs == {"get_issue_id", "get_labels", "get_project", "is_issue_in_project",
            "add_issue_to_project", "get_iteration_field", "set_iteration",
            "clear_iteration", "recheck_labels"}
MutationCalls == {"add_issue_to_project", "set_iteration", "clear_iteration"}

IdleRun(its) ==
    [pc |-> "idle", action |-> "none", label |-> NoLabel,
     issue_id |-> "none", build_labels |-> <<>>, idx |-> 0,
     project_id |-> NoProject, item_id |-> <<>>, iteration_id |-> NoIteration,
     success_count |-> 0, ret |-> -1, exit_code |-> -1, api_error |-> FALSE,
     warned |-> FALSE, calls |-> <<>>, outcomes |-> <<>>, ensured |-> <<>>,
     muts |-> <<>>, faults |-> {}, pre |-> its]

Init ==
    \E w \in Worlds :
        /\ issueLabels = w.labels
        /\ orgProjects = w.org
        /\ fields = w.fields
        /\ items = w.items
        /\ remoteDedup = w.dedup
        /\ failures = 0
        /\ run = [r \in Runs |-> IdleRun(w.items)]


\* ------------------------------------------------- decisions of the code
recheck_exit_code_always_fails(labels) == 1
recheck_exit_code_never_fails(labels) == 0

\* main: "if success_count == 0:" then re-read the build labels;
\* "if labels: sys.exit(1)", otherwise main returns (exit code 0).
recheck_exit_code(labels) == IF labels # <<>> THEN 1 ELSE 0

ensure_step_always_adds(found) == "add_issue_to_project"

\* ensure_issue_in_project: "if item_id: return item_id", else add.
ensure_step(found) ==
    IF found # <<>> THEN "have_item" ELSE "add_issue_to_project"

remove_step_ensures(found) ==
    IF found = <<>> THEN "add_issue_to_project" ELSE "get_iteration_field"

\* remove branch: "if not item_id: ... continue", else clear_iteration.
remove_step(found) ==
    IF found = <<>> THEN "skip" ELSE "get_iteration_field"

count_update_always(success_count, ok) == success_count + 1

\* "if self.set_iteration_to_current(...): success_count += 1" (and clear)
count_update(success_count, ok) ==
    IF ok THEN success_count + 1 ELSE success_count

\* process_sprint_for_build_labels returns count to main, which exits 0 when
\* the count is positive and otherwise goes on to the label re-read.
ReturnCount(rec) ==
    IF rec.success_count = 0
    THEN [rec EXCEPT !.ret = rec.success_count, !.pc = "recheck_labels"]
    ELSE [rec EXCEPT !.ret = rec.success_count, !.pc = "done", !.exit_code = 0]

\* A loop that gives up at the first label that was not updated.
next_label_stop_on_failure(rec) ==
    IF /\ rec.idx < Len(rec.build_labels)
       /\ rec.outcomes[Len(rec.outcomes)] = "ok"
    THEN [rec EXCEPT !.idx = @ + 1, !.pc = "get_project",
                     !.project_id = NoProject, !.item_id = <<>>,
                     !.iteration_id = NoIteration]
    ELSE ReturnCount(rec)

\* The for loop's step to the next build label, or the return after the last.
next_label(rec) ==
    IF rec.idx < Len(rec.build_labels)
    THEN [rec EXCEPT !.idx = @ + 1, !.pc = "get_project",
                     !.project_id = NoProject, !.item_id = <<>>,
                     !.iteration_id = NoIteration]
    ELSE ReturnCount(rec)

\* One label of the loop ends with an outcome; ok tells whether it counts.
EndLabel(rec, outcome, ok) ==
    next_label([rec EXCEPT !.outcomes = Append(@, outcome),
                           !.success_count = count_update(@, ok)])

\* "except GitHubAPIError: ... sys.exit(1)"
ExitOnApiError(rec) ==
    [rec EXCEPT !.pc = "done", !.exit_code = 1, !.api_error = TRUE]

\* add_issue_to_build_project returns success; main: sys.exit(0 if success else 1)
ReturnBool(rec, success) ==
    [rec EXCEPT !.pc = "done", !.ret = IF success THEN 1 ELSE 0,
                !.exit_code = IF success THEN 0 ELSE 1]

\* The gh api call at rec.pc is made (for the label at rec.idx).
Called(rec) == [rec EXCEPT !.calls = Append(@, <<rec.idx, rec.pc>>)]

Title(rec) ==
    IF rec.action = "add-to-build-project" THEN rec.label
    ELSE rec.build_labels[rec.idx]

\* ------------------------------------------------------------ actions
Sequential(r) == IF r = 1 THEN TRUE ELSE run[r - 1].pc = "done"

\* main with parsed arguments
Launch(r) ==
    /\ run[r].pc = "idle"
    /\ \E a \in Actions, l \in {B16, NoLabel} :
        /\ a = "add-to-build-project" \/ l = NoLabel
        /\ run' = [run EXCEPT ![r] =
              IF a = "add-to-build-project" /\ l = NoLabel
              THEN [@ EXCEPT !.action = a, !.pre = items,
                             !.pc = "done", !.exit_code = 1]
              ELSE [@ EXCEPT !.action = a, !.label = l, !.pre = items,
                             !.pc = "get_issue_id"]]
    /\ UNCHANGED <<remote, items, failures>>

\* One workflow run per issue event: an invocation starts when the one
\* before it has ended.
Start(r) == Sequential(r) /\ Launch(r)

\* Invocations of overlapping workflow runs: nothing orders their starts.
StartConcurrently(r) == Launch(r)

GetIssueId(r) ==
    /\ run[r].pc = "get_issue_id"
    /\ LET rec == Called(run[r])
       IN  run' = [run EXCEPT ![r] =
             [rec EXCEPT !.issue_id = IssueNode,
                  !.pc = IF rec.action = "add-to-build-project"
                         THEN "get_project" ELSE "get_labels"]]
    /\ UNCHANGED <<remote, items, failures>>

GetLabels(r) ==
    /\ run[r].pc = "get_labels"
    /\ LET build_labels == get_labels_by_prefix(issueLabels, BuildPrefix)
       IN  run' = [run EXCEPT ![r] =
             IF build_labels = <<>>
             THEN ReturnCount([Called(@) EXCEPT
                                  !.warned = (run[r].action = "add-to-sprint")])
             ELSE [Called(@) EXCEPT !.build_labels = build_labels,
                        !.idx = 1, !.pc = "get_project"]]
    /\ UNCHANGED <<remote, items, failures>>

GetProject(r) ==
    /\ run[r].pc = "get_project"
    /\ LET rec == Called(run[r])
           project_data == get_project_by_title(orgProjects, Title(rec))
       IN  run' = [run EXCEPT ![r] =
             IF Len(project_data) > 1
             THEN ExitOnApiError(rec)
             ELSE IF project_data = <<>>
             THEN IF rec.action = "add-to-build-project"
                  THEN ReturnBool(rec, FALSE)
                  ELSE EndLabel(rec, "not_found", FALSE)
             ELSE [rec EXCEPT !.project_id = project_data[1].id,
                              !.pc = "is_issue_in_project"]]
    /\ UNCHANGED <<remote, items, failures>>

IsIssueInProject(r) ==
    /\ run[r].pc = "is_issue_in_project"
    /\ LET rec == Called(run[r])
           found == is_issue_in_project(items[rec.project_id], rec.issue_id)
           step == IF rec.action = "remove-from-sprint"
                   THEN remove_step(found) ELSE ensure_step(found)
           got == [rec EXCEPT !.item_id = found,
                      !.ensured = IF step = "have_item"
                                  THEN Append(@, [project |-> rec.project_id,
                                                  item |-> found])
                                  ELSE @]
       IN  run' = [run EXCEPT ![r] =
             IF step = "skip" THEN EndLabel(got, "absent", FALSE)
             ELSE IF step = "have_item"
             THEN IF rec.action = "add-to-build-project"
                  THEN ReturnBool(got, TRUE)
                  ELSE [got EXCEPT !.pc = "get_iteration_field"]
             ELSE [got EXCEPT !.pc = step]]
    /\ UNCHANGED <<remote, items, failures>>

AddIssueToProject(r) ==
    /\ run[r].pc = "add_issue_to_project"
    /\ LET rec == Called(run[r])
           p == rec.project_id
           res == addProjectV2ItemById(items[p], rec.issue_id, remoteDedup)
           got == [rec EXCEPT !.item_id = <<res.id>>,
                      !.ensured = Append(@, [project |-> p, item |-> <<res.id>>]),
                      !.muts = Append(@, [kind |-> "add", project |-> p,
                                          item |-> <<res.id>>,
                                          value |-> NoIteration])]
       IN  /\ items' = [items EXCEPT ![p] = res.items]
           /\ run' = [run EXCEPT ![r] =
                 IF rec.action = "add-to-build-project"
                 THEN ReturnBool(got, TRUE)
                 ELSE [got EXCEPT !.pc = "get_iteration_field"]]
    /\ UNCHANGED <<remote, failures>>

GetIterationField(r) ==
    /\ run[r].pc = "get_iteration_field"
    /\ LET rec == Called(run[r])
           field_data == get_iteration_field(fields[rec.project_id])
       IN  run' = [run EXCEPT ![r] =
             IF Len(field_data) > 1 THEN EndLabel(rec, "step_failed", FALSE)
             ELSE IF field_data = <<>> THEN EndLabel(rec, "no_field", FALSE)
             ELSE IF rec.action = "remove-from-sprint"
             THEN [rec EXCEPT !.pc = "clear_iteration"]
             ELSE IF field_data[1].iterations = <<>>
             THEN EndLabel(rec, "no_iteration", FALSE)
             ELSE [rec EXCEPT !.pc = "set_iteration",
                      !.iteration_id =
                          current_iteration_id(field_data[1].iterations)]]
    /\ UNCHANGED <<remote, items, failures>>

\* The set or clear mutation with the run's item id; the remote refuses an
\* itemId that is not one id of the project.
Mutate(r, kind, value) ==
    LET rec == Called(run[r])
        p == rec.project_id
    IN  IF ValidItemId(items[p], rec.item_id)
        THEN /\ items' = [items EXCEPT ![p] =
                    updateProjectV2ItemFieldValue(@, rec.item_id[1], value)]
             /\ run' = [run EXCEPT ![r] =
                    EndLabel([rec EXCEPT !.muts =
                                 Append(@, [kind |-> kind, project |-> p,
                                            item |-> rec.item_id,
                                            value |-> value])],
                             "ok", TRUE)]
        ELSE /\ items' = items
             /\ run' = [run EXCEPT ![r] = EndLabel(rec, "step_failed", FALSE)]

SetIteration(r) ==
    /\ run[r].pc = "set_iteration"
    /\ Mutate(r, "set", run[r].iteration_id)
    /\ UNCHANGED <<remote, failures>>

ClearIteration(r) ==
    /\ run[r].pc = "clear_iteration"
    /\ Mutate(r, "clear", NoIteration)
    /\ UNCHANGED <<remote, failures>>

RecheckLabels(r) ==
    /\ run[r].pc = "recheck_labels"
    /\ LET labels == get_labels_by_prefix(issueLabels, BuildPrefix)
       IN  run' = [run EXCEPT ![r] =
             [Called(@) EXCEPT !.pc = "done",
                               !.exit_code = recheck_exit_code(labels)]]
    /\ UNCHANGED <<remote, items, failures>>

\* _run_gh_api raises GitHubAPIError: the call has no effect on the remote.
\* set_iteration_to_current and clear_iteration catch it and return False;
\* everywhere else it ends the process with exit code 1.
RemoteCallFails(r) ==
    /\ run[r].pc \in CallPcs
    /\ failures < MaxFailures
    /\ failures' = failures + 1
    /\ LET rec == [Called(run[r]) EXCEPT
                      !.faults = @ \cup {<<run[r].idx, run[r].pc>>}]
       IN  run' = [run EXCEPT ![r] =
             IF rec.pc \in {"get_iteration_field", "set_iteration",
                            "clear_iteration"}
             THEN EndLabel(rec, "step_failed", FALSE)
             ELSE ExitOnApiError(rec)]
    /\ UNCHANGED <<remote, items>>

Next ==
    \E r \in Runs :
        \/ Start(r)
        \/ GetIssueId(r)
        \/ GetLabels(r)
        \/ GetProject(r)
        \/ IsIssueInProject(r)
        \/ AddIssueToProject(r)
        \/ GetIterationField(r)
        \/ SetIteration(r)
        \/ ClearIteration(r)
        \/ RecheckLabels(r)
        \/ RemoteCallFails(r)

Spec == Init /\ [][Next]_vars

\* Concurrent invocations for the same issue: the gh api calls of the runs
\* interleave in any order.
\* The worlds of concurrent runs: a project whose first page has room.
ConcurrentWorlds ==
    {w \in MembershipWorlds : Len(w.items["PA"]) < ItemPageSize - 1}

InitConcurrent ==
    \E w \in ConcurrentWorlds :
        /\ issueLabels = w.labels
        /\ orgProjects = w.org
        /\ fields = w.fields
        /\ items = w.items
        /\ remoteDedup = w.dedup
        /\ failures = 0
        /\ run = [r \in Runs |-> IdleRun(w.items)]

NextConcurrent ==
    \E r \in Runs :
        \/ StartConcurrently(r)
        \/ GetIssueId(r)
        \/ GetLabels(r)
        \/ GetProject(r)
        \/ IsIssueInProject(r)
        \/ AddIssueToProject(r)
        \/ GetIterationField(r)
        \/ SetIteration(r)
        \/ ClearIteration(r)
        \/ RecheckLabels(r)
        \/ RemoteCallFails(r)

SpecConcurrent == InitConcurrent /\ [][NextConcurrent]_vars

TypeOK ==
    /\ failures \in 0..MaxFailures
    /\ \A r \in Runs : run[r].exit_code \in {-1, 0, 1}


\* ------------------------------------------------------------ claims
Done(r) == run[r].pc = "done"
IsSprint(r) == run[r].action \in {"add-to-sprint", "remove-from-sprint"}
IsAdd(r) == run[r].action = "add-to-sprint"
IsRemove(r) == run[r].action = "remove-from-sprint"
IsBuild(r) == run[r].action = "add-to-build-project"

\* The run is the latest one: no later run has started.
Latest(r) == \A q \in Runs : q > r => run[q].pc = "idle"

CallNames(rec) == {rec.calls[i][2] : i \in DOMAIN rec.calls}
MutsOf(rec, kind, p) ==
    {i \in DOMAIN rec.muts : rec.muts[i].kind = kind /\ rec.muts[i].project = p}
HasBuildLabel ==
    \E i \in DOMAIN issueLabels : startswith(issueLabels[i], BuildPrefix)

\* C1: ensure_issue_in_project called twice in succession for the same
\* (project, issue) returns the same item id both times, the project then
\* holds exactly one item of the issue, and add_issue_to_project was called at
\* most once over the two calls, for any number of items in the project.
C1_EnsureIdempotent ==
    \A r \in Runs : (r + 1 \in Runs /\ Latest(r + 1)) =>
        \A i \in DOMAIN run[r].ensured, j \in DOMAIN run[r + 1].ensured :
            LET e1 == run[r].ensured[i]
                e2 == run[r + 1].ensured[j]
                p == e1.project
            IN  e1.project = e2.project =>
                  /\ e1.item = e2.item
                  /\ Len(ItemsOf(items[p], IssueNode)) = 1
                  /\ Cardinality(MutsOf(run[r], "add", p))
                       + Cardinality(MutsOf(run[r + 1], "add", p)) <= 1


\* An add-to-sprint run on an issue without build label, whose label listing
\* has answered.
AddWithoutBuildLabel(r) ==
    /\ IsAdd(r)
    /\ ~HasBuildLabel
    /\ <<0, "get_labels">> \in {run[r].calls[i] : i \in DOMAIN run[r].calls}
    /\ <<0, "get_labels">> \notin run[r].faults

\* C2 as stated: add-to-sprint on an issue without build label warns, returns
\* 0, and the invocation ends with exit code 1.
C2_NoBuildLabelExitsOne ==
    \A r \in Runs : (AddWithoutBuildLabel(r) /\ Done(r)) =>
        /\ run[r].warned /\ run[r].ret = 0
        /\ run[r].exit_code = 1

\* C2 amended: add-to-sprint on an issue without build label warns and returns
\* 0; the invocation then re-reads the labels and ends with exit code 0 when
\* that read again shows no build label, and with 1 only when the read fails.
C2_NoBuildLabelExitsZero ==
    \A r \in Runs : AddWithoutBuildLabel(r) =>
        /\ run[r].warned /\ run[r].ret = 0
        /\ run[r].muts = <<>>
        /\ Done(r) =>
              run[r].exit_code =
                  IF <<0, "recheck_labels">> \in run[r].faults THEN 1 ELSE 0

C2_Witness ==
    \E r \in Runs :
        /\ AddWithoutBuildLabel(r) /\ Done(r)
        /\ run[r].faults = {} /\ run[r].exit_code = 0
        /\ issueLabels = <<bug>>


\* What processing build label i of run r comes to, from that label's own
\* project (as it was when the run started) and the remote failures met
\* while processing that label.
Expected(r, i) ==
    LET rec == run[r]
        project_data == get_project_by_title(orgProjects, rec.build_labels[i])
        p == project_data[1].id
        field_data == get_iteration_field(fields[p])
        terminal == IF IsRemove(r) THEN "clear_iteration" ELSE "set_iteration"
    IN  IF project_data = <<>> THEN "not_found"
        ELSE IF IsRemove(r) /\ is_issue_in_project(rec.pre[p], IssueNode) = <<>>
        THEN "absent"
        ELSE IF <<i, "get_iteration_field">> \in rec.faults \/ Len(field_data) > 1
        THEN "step_failed"
        ELSE IF field_data = <<>> THEN "no_field"
        ELSE IF IsAdd(r) /\ field_data[1].iterations = <<>> THEN "no_iteration"
        ELSE IF <<i, terminal>> \in rec.faults THEN "step_failed"
        ELSE "ok"

LastCall(r) == run[r].calls[Len(run[r].calls)][2]

\* C3 as stated: whatever happens while one build label is processed, a
\* failing remote call in its project lookup or membership check or add
\* included, every other build label is still processed.
C3_EveryLabelProcessed ==
    \A r \in Runs : (IsSprint(r) /\ Done(r)) =>
        \A i \in DOMAIN run[r].build_labels :
            \/ i \in DOMAIN run[r].outcomes
            \/ i = run[r].idx /\ run[r].api_error

\* C3 amended: a label whose project is not found, whose membership is
\* absent, or whose set/clear step fails (a failing remote call inside that
\* step included) leaves every other label processed with its own result; a
\* failing project lookup, membership check or add ends the whole run with
\* exit code 1 and the labels after it unprocessed.
C3_LabelsIndependent ==
    \A r \in Runs : IsSprint(r) =>
        /\ \A i \in DOMAIN run[r].outcomes : run[r].outcomes[i] = Expected(r, i)
        /\ Done(r) =>
              \/ Len(run[r].outcomes) = Len(run[r].build_labels)
              \/ /\ run[r].api_error /\ run[r].exit_code = 1
                 /\ Len(run[r].outcomes) = run[r].idx - 1
                 /\ LastCall(r) \in {"get_project", "is_issue_in_project",
                                     "add_issue_to_project"}

C3_Witness ==
    \E r \in Runs :
        /\ IsSprint(r) /\ Done(r) /\ ~run[r].api_error
        /\ Len(run[r].outcomes) = 2
        /\ run[r].outcomes[1] \in {"not_found", "absent", "step_failed"}
        /\ run[r].outcomes[2] = "ok"

\* Build labels of run r whose project was found and whose set or clear
\* mutation was carried out.
Updated(r) ==
    {i \in DOMAIN run[r].build_labels :
        LET project_data ==
                get_project_by_title(orgProjects, run[r].build_labels[i])
        IN  /\ Len(project_data) = 1
            /\ \E k \in DOMAIN run[r].muts :
                  /\ run[r].muts[k].project = project_data[1].id
                  /\ run[r].muts[k].kind =
                        (IF IsRemove(r) THEN "clear" ELSE "set")}

\* The case of the example: add on an issue labelled B16 and B17 where the
\* lookup finds a project for B16 only, with a usable iteration field, and
\* no remote call fails.
OnlyB16Found(r) ==
    /\ IsAdd(r) /\ run[r].faults = {}
    /\ issueLabels = <<B16, B17>>
    /\ Len(get_project_by_title(orgProjects, B16)) = 1
    /\ get_project_by_title(orgProjects, B17) = <<>>
    /\ LET field_data ==
              get_iteration_field(
                  fields[get_project_by_title(orgProjects, B16)[1].id])
       IN  Len(field_data) = 1 /\ field_data[1].iterations # <<>>

\* C4: the value process_sprint_for_build_labels returns is the number of
\* build labels whose project was found and whose terminal step (set for add,
\* clear for remove) succeeded; with labels B16 and B17 of which only B16 is
\* found, add updates exactly one project and returns 1.
C4_CountsUpdatedProjects ==
    \A r \in Runs : (IsSprint(r) /\ run[r].ret >= 0) =>
        /\ run[r].ret = Cardinality(Updated(r))
        /\ OnlyB16Found(r) =>
              /\ run[r].ret = 1
              /\ Len(run[r].muts) \in {1, 2}
              /\ Cardinality({k \in DOMAIN run[r].muts :
                                 run[r].muts[k].kind = "set"}) = 1

C4_Witness ==
    \E r \in Runs :
        /\ OnlyB16Found(r) /\ Done(r) /\ run[r].ret = 1
        /\ run[r].outcomes = <<"ok", "not_found">>


\* C5 as stated: a sprint action exits 0 when at least one project was
\* updated, and 1 when the issue has build labels and no project was updated
\* or a remote call raised an error caught by neither set nor clear;
\* add-to-build-project exits 0 exactly when it returned true.
C5_ExitZeroWhenUpdated ==
    \A r \in Runs : Done(r) =>
        /\ IsSprint(r) =>
              /\ Updated(r) # {} => run[r].exit_code = 0
              /\ (HasBuildLabel /\ Updated(r) = {}) => run[r].exit_code = 1
              /\ run[r].api_error => run[r].exit_code = 1
        /\ IsBuild(r) =>
              /\ run[r].exit_code = 0 <=> run[r].ret = 1
              /\ (run[r].ret = 0 \/ run[r].api_error) => run[r].exit_code = 1

\* C5 amended: a sprint action exits 1 when a remote call raises an error
\* caught by neither set nor clear, even after projects were updated for
\* earlier labels; otherwise it exits 0 when the returned count is at least
\* one and 1 when the issue has build labels and the count is 0;
\* add-to-build-project exits 0 exactly when it returned true, and 1 when it
\* returned false or a remote call failed.
C5_ExitCodes ==
    \A r \in Runs : Done(r) =>
        /\ IsSprint(r) =>
              /\ run[r].api_error => run[r].exit_code = 1
              /\ (~run[r].api_error /\ run[r].ret >= 1) => run[r].exit_code = 0
              /\ (~run[r].api_error /\ run[r].ret = 0 /\ HasBuildLabel)
                    => run[r].exit_code = 1
              /\ ~run[r].api_error => run[r].ret >= 0
        /\ IsBuild(r) =>
              /\ run[r].exit_code = 0 <=> run[r].ret = 1
              /\ (run[r].ret = 0 \/ run[r].api_error) => run[r].exit_code = 1
              /\ run[r].exit_code \in {0, 1}

C5_Witness ==
    \E r \in Runs :
        /\ IsSprint(r) /\ Done(r) /\ HasBuildLabel
        /\ ~run[r].api_error /\ run[r].ret = 0 /\ run[r].exit_code = 1
        /\ run[r].outcomes # <<>>

\* Two consecutive finished runs of the same action and label, neither of
\* which met a failing remote call.
Rerun(r) ==
    /\ r + 1 \in Runs
    /\ Done(r) /\ Done(r + 1) /\ Latest(r + 1)
    /\ run[r].action = run[r + 1].action
    /\ run[r].label = run[r + 1].label
    /\ run[r].faults = {} /\ run[r + 1].faults = {}

\* C6: a second run of the same action is a no-op: it reports success when
\* the first did, the remote state after it is the state after the first run,
\* and a project the issue was ensured in holds exactly one item of the issue.
C6_RerunIsNoOp ==
    \A r \in Runs : Rerun(r) =>
        /\ run[r].exit_code = 0 => run[r + 1].exit_code = 0
        /\ items = run[r + 1].pre
        /\ \A i \in DOMAIN run[r + 1].ensured :
              Len(ItemsOf(items[run[r + 1].ensured[i].project], IssueNode)) = 1


\* add_issue_to_project has just returned in run r.
JustAdded(r) ==
    /\ run[r].calls # <<>>
    /\ run[r].calls[Len(run[r].calls)][2] = "add_issue_to_project"
    /\ ~run[r].api_error

\* C7: right after add_issue_to_project(project, issue) has returned an item
\* id, is_issue_in_project(project, issue) returns exactly that id, for any
\* number of items in the project.
C7_AddThenFind ==
    \A r \in Runs : (JustAdded(r) /\ Latest(r)) =>
        is_issue_in_project(items[run[r].project_id], run[r].issue_id)
            = run[r].item_id

\* C8: remove on an issue without build label returns 0 and makes no
\* mutation call; the only calls are the reads of the issue id and of the
\* labels.
C8_RemoveWithoutLabelsReadsOnly ==
    \A r \in Runs : (IsRemove(r) /\ ~HasBuildLabel) =>
        /\ CallNames(run[r]) \subseteq
              {"get_issue_id", "get_labels", "recheck_labels"}
        /\ run[r].muts = <<>>
        /\ Latest(r) => items = run[r].pre
        /\ (Done(r) /\ ~run[r].api_error) => run[r].ret = 0
        /\ run[r].ret \in {-1, 0}
        /\ ~run[r].warned

C8_Witness ==
    \E r \in Runs :
        /\ IsRemove(r) /\ issueLabels = <<bug>> /\ Done(r)
        /\ run[r].ret = 0 /\ run[r].faults = {}
        /\ Len(run[r].calls) = 3

\* The project has an iteration field named Iteration or Sprint.
IterationFields(flds) ==
    SelectSeq(flds, LAMBDA f : f.type = "iteration"
                               /\ f.name \in {"Iteration", "Sprint"})

LabelProject(r, i) ==
    get_project_by_title(orgProjects, run[r].build_labels[i])[1].id

\* C9: set_iteration_to_current fails without attempting the mutation when
\* the project has no iteration field or the field has no iterations; the
\* iteration a set mutation carries is the first of the field's iterations.
C9_SetsFirstIteration ==
    \A r \in Runs : IsAdd(r) =>
        /\ \A i \in DOMAIN run[r].outcomes :
              run[r].outcomes[i] # "not_found" =>
                LET flds == IterationFields(fields[LabelProject(r, i)])
                IN  (flds = <<>> \/ (Len(flds) = 1 /\ flds[1].iterations = <<>>))
                    => /\ run[r].outcomes[i] \in {"no_field", "no_iteration",
                                                  "step_failed"}
                       /\ \A k \in DOMAIN run[r].calls :
                             run[r].calls[k] # <<i, "set_iteration">>
        /\ \A k \in DOMAIN run[r].muts :
              run[r].muts[k].kind = "set" =>
                LET flds == IterationFields(fields[run[r].muts[k].project])
                IN  /\ flds # <<>>
                    /\ flds[1].iterations # <<>>
                    /\ run[r].muts[k].value = flds[1].iterations[1]
        /\ run[r].pc = "set_iteration" =>
              LET flds == IterationFields(fields[run[r].project_id])
              IN  /\ flds # <<>> /\ flds[1].iterations # <<>>
                  /\ run[r].iteration_id = flds[1].iterations[1]

C9_Witness ==
    \E r \in Runs :
        /\ IsAdd(r) /\ Done(r)
        /\ run[r].outcomes = <<"no_iteration", "ok">>
        /\ \E k \in DOMAIN run[r].muts :
              run[r].muts[k].kind = "set" /\ run[r].muts[k].value = "IT_1"

Contents(its) == [k \in DOMAIN its |-> its[k].content]

\* C10: a remove run never calls add_issue_to_project; a label whose project
\* does not hold the issue is skipped without any mutation call; the items of
\* every project are the same after the run as before it.
C10_RemoveNeverAdds ==
    \A r \in Runs : IsRemove(r) =>
        /\ "add_issue_to_project" \notin CallNames(run[r])
        /\ \A k \in DOMAIN run[r].muts : run[r].muts[k].kind = "clear"
        /\ Latest(r) =>
              \A p \in ProjectIds : Contents(items[p]) = Contents(run[r].pre[p])
        /\ \A i \in DOMAIN run[r].outcomes :
              (/\ run[r].outcomes[i] # "not_found"
               /\ ItemsOf(run[r].pre[LabelProject(r, i)], IssueNode) = <<>>)
              => /\ run[r].outcomes[i] = "absent"
                 /\ \A k \in DOMAIN run[r].calls :
                       run[r].calls[k][1] = i =>
                           run[r].calls[k][2] \notin MutationCalls

C10_Witness ==
    \E r \in Runs :
        /\ IsRemove(r) /\ Done(r)
        /\ run[r].outcomes = <<"absent", "absent">>
        /\ run[r].faults = {}


\* Runs r and q have both added the issue to project p.
BothAdded(r, q, p) ==
    /\ r # q
    /\ MutsOf(run[r], "add", p) # {}
    /\ MutsOf(run[q], "add", p) # {}

\* C11: ensure_issue_in_project checks and adds in two separate remote
\* calls: a run is about to add only after its own check answered that the
\* issue is absent, and it adds at most once per project; nothing keeps the
\* project unchanged between the check and the add, so two concurrent runs
\* can both see the issue absent and both add it (C11_RaceReached).
C11_CheckThenAddPerRun ==
    \A r \in Runs :
        /\ run[r].pc = "add_issue_to_project" =>
              /\ run[r].item_id = <<>>
              /\ LastCall(r) = "is_issue_in_project"
              /\ ~IsRemove(r)
        /\ \A p \in ProjectIds :
              /\ Cardinality(MutsOf(run[r], "add", p)) <= 1
              /\ MutsOf(run[r], "add", p) # {} =>
                    \E k \in DOMAIN run[r].calls :
                        /\ k > 1
                        /\ run[r].calls[k][2] = "add_issue_to_project"
                        /\ run[r].calls[k - 1][2] = "is_issue_in_project"

\* Two runs that started on a project without the issue, and with room on
\* its first page, have both seen the issue absent and both added it.
C11_RaceReached ==
    \E r \in Runs, q \in Runs :
        /\ BothAdded(r, q, "PA")
        /\ run[r].pre = run[q].pre
        /\ run[r].pre["PA"] = <<>>
        /\ run[r].faults = {} /\ run[q].faults = {}

====
